---- MODULE Spec2Model ----
(***************************************************************************)
(* Model of cargo-wix's library (src/lib.rs): the Error type with its      *)
(* codes, the Platform enumeration, the Wix builder and Wix::run, which    *)
(* reads Cargo.toml and drives cargo, candle, light and signtool.          *)
(*                                                                         *)
(* Strings are sequences of one-character strings, so that format!,        *)
(* PathBuf::push and PathBuf::set_extension are computed character by      *)
(* character.  A toml::Value is a record tagged by kind.  Option<T> is a      *)
(* sequence of length 0 (None) or 1 (Some).                                *)
(***************************************************************************)
EXTENDS Integers, Sequences, FiniteSets, TLC

\* ------------------------------------------------------------------ bounds
\* Exit codes of an external process range over 0..MaxExitCode.
MaxExitCode == 1
\* The authors array of a generated manifest has at most MaxAuthors entries.
MaxAuthors == 2

\* ------------------------------------------------------- string constants
WIX_TOOLSET_COMPILER == <<"c","a","n","d","l","e">>
WIX_TOOLSET_LINKER == <<"l","i","g","h","t">>
SIGNTOOL == <<"s","i","g","n","t","o","o","l">>
CARGO == <<"c","a","r","g","o">>

ARG_build == <<"b","u","i","l","d">>
ARG_release == <<"-","-","r","e","l","e","a","s","e">>
ARG_o == <<"-","o">>
ARG_ext == <<"-","e","x","t">>
ARG_WixUIExtension == <<"W","i","x","U","I","E","x","t","e","n","s","i","o","n">>
ARG_cultures == <<"-","c","u","l","t","u","r","e","s",":","e","n","-","u","s">>
ARG_out == <<"-","o","u","t">>
ARG_sign == <<"s","i","g","n">>
ARG_a == <<"/","a">>

D_Version == <<"-","d","V","e","r","s","i","o","n","=">>
D_Platform == <<"-","d","P","l","a","t","f","o","r","m","=">>
D_ProductName == <<"-","d","P","r","o","d","u","c","t","N","a","m","e","=">>
D_BinaryName == <<"-","d","B","i","n","a","r","y","N","a","m","e","=">>
D_Description == <<"-","d","D","e","s","c","r","i","p","t","i","o","n","=">>
D_Author == <<"-","d","A","u","t","h","o","r","=">>

\* ------------------------------------------------------------ Option<T>
None == <<>>
Some(x) == <<x>>
is_some(o) == Len(o) = 1
and_then(o, f(_)) == IF Len(o) = 0 THEN None ELSE f(o[1])
unwrap_or(o, d) == IF Len(o) = 0 THEN d ELSE o[1]

\* ------------------------------------------------------------ Result<T,E>
Ok(x) == [tag |-> "Ok", val |-> x]
Err(e) == [tag |-> "Err", err |-> e]
ok_or(o, e) == IF Len(o) = 0 THEN Err(e) ELSE Ok(o[1])

\* ------------------------------------------------------------ toml::Value
StrV(s) == [kind |-> "String", str |-> s]
IntV == [kind |-> "Integer", int |-> 0]
TabV(t) == [kind |-> "Table", table |-> t]
ArrV(a) == [kind |-> "Array", array |-> a]

\* Value::as_table, Value::as_str, Value::as_array
as_table(v) == IF v.kind = "Table" THEN Some(v.table) ELSE None
as_str(v) == IF v.kind = "String" THEN Some(v.str) ELSE None
as_array(v) == IF v.kind = "Array" THEN Some(v.array) ELSE None
\* Table::get(key) on the map of a table
table_get(t, k) == IF k \in DOMAIN t THEN Some(t[k]) ELSE None
\* Value::get(key) with a string index: only a table has string keys
value_get(v, k) == IF v.kind = "Table" THEN table_get(v.table, k) ELSE None
\* slice::get(i) with a zero-based index
array_get(a, i) == IF i + 1 \in DOMAIN a THEN Some(a[i + 1]) ELSE None

\* ------------------------------------------------------------ Error
Build(msg) == [kind |-> "Build", msg |-> msg]
Compile(msg) == [kind |-> "Compile", msg |-> msg]
Generic(msg) == [kind |-> "Generic", msg |-> msg]
Io(cause) == [kind |-> "Io", msg |-> cause]
Link(msg) == [kind |-> "Link", msg |-> msg]
Manifest(field) == [kind |-> "Manifest", msg |-> field]
Sign(msg) == [kind |-> "Sign", msg |-> msg]
Toml(cause) == [kind |-> "Toml", msg |-> cause]

\* code with Link given the number of Io.
code_duplicate(e) ==
    CASE e.kind = "Build" -> 1
      [] e.kind = "Compile" -> 2
      [] e.kind = "Generic" -> 3
      [] e.kind = "Io" -> 4
      [] e.kind = "Link" -> 4
      [] e.kind = "Manifest" -> 6
      [] e.kind = "Sign" -> 7
      [] e.kind = "Toml" -> 8

code(e) ==
    CASE e.kind = "Build" -> 1
      [] e.kind = "Compile" -> 2
      [] e.kind = "Generic" -> 3
      [] e.kind = "Io" -> 4
      [] e.kind = "Link" -> 5
      [] e.kind = "Manifest" -> 6
      [] e.kind = "Sign" -> 7
      [] e.kind = "Toml" -> 8

\* ------------------------------------------------------------ Platform
Platforms == {"X86", "X64"}

arch(p) ==
    CASE p = "X86" -> <<"i","6","8","6">>
      [] p = "X64" -> <<"x","8","6","_","6","4">>

\* fmt::Display for Platform
PlatformDisplay(p) ==
    CASE p = "X86" -> <<"x","8","6">>
      [] p = "X64" -> <<"x","6","4">>

\* cfg!(target_arch = "x86_64") selects the platform
PlatformOf(target_arch) == IF target_arch = "x86_64" THEN "X64" ELSE "X86"

\* ------------------------------------------------------------ PathBuf
\* Largest index of character c in s, 0 when c does not occur.
LastIndexOf(s, c) ==
    LET I == {i \in 1..Len(s) : s[i] = c}
    IN IF I = {} THEN 0 ELSE CHOOSE i \in I : \A j \in I : j <= i

\* std::path::MAIN_SEPARATOR of the host
MAIN_SEPARATOR(os) == IF os = "windows" THEN "\\" ELSE "/"

\* is_sep_byte: Windows also accepts the forward slash
is_sep_byte(c, os) == IF os = "windows" THEN c \in {"\\", "/"} ELSE c = "/"

\* is_verbatim_sep: inside a verbatim path only the backslash separates
is_verbatim_sep(c) == c = "\\"

\* u8::is_ascii_alphabetic, the test of a drive letter
DriveLetters ==
    {"a","b","c","d","e","f","g","h","i","j","k","l","m",
     "n","o","p","q","r","s","t","u","v","w","x","y","z",
     "A","B","C","D","E","F","G","H","I","J","K","L","M",
     "N","O","P","Q","R","S","T","U","V","W","X","Y","Z"}

\* The separator test of a path, verbatim or not
is_sep_of(c, verbatim, os) ==
    IF verbatim THEN is_verbatim_sep(c) ELSE is_sep_byte(c, os)

\* Least member of a non-empty set S of indexes, otherwise
FirstOf(S, otherwise) ==
    IF S = {} THEN otherwise ELSE CHOOSE i \in S : \A j \in S : i <= j

\* Index of the first separator of path at or after index from, Len + 1
\* when there is none
NextSep(path, from, verbatim, os) ==
    FirstOf({i \in from..Len(path) : is_sep_of(path[i], verbatim, os)}, Len(path) + 1)

\* parse_next_component: the text before the separator at index i and the
\* text after it
SplitAt(path, i) == <<SubSeq(path, 1, i - 1), SubSeq(path, i + 1, Len(path))>>
parse_next_component(path, verbatim, os) == SplitAt(path, NextSep(path, 1, verbatim, os))

\* PrefixParser::strip_prefix: pat occurs in path at index i, a forward
\* slash of the path counting as a backslash
MatchesAt(path, i, pat) ==
    /\ Len(path) >= i + Len(pat) - 1
    /\ \A k \in 1..Len(pat) :
          (IF path[i + k - 1] = "/" THEN "\\" ELSE path[i + k - 1]) = pat[k]

\* parse_drive: a drive letter and a colon
parse_drive(path) == Len(path) >= 2 /\ path[1] \in DriveLetters /\ path[2] = ":"

\* parse_drive_exact: a drive, followed by a separator or by nothing
parse_drive_exact(path) ==
    /\ (Len(path) >= 3 => is_sep_byte(path[3], "windows"))
    /\ parse_drive(path)

\* parse_prefix finding no prefix
NoPrefix == [kind |-> "None", len |-> 0]

\* Prefix::len of a UNC or verbatim UNC prefix whose lead has n characters
UncShare(n, server, share) ==
    n + Len(server) + (IF Len(share) > 0 THEN 1 + Len(share) ELSE 0)
\* The prefixes parse_prefix recognises after \\?\UNC\, \\?\ and \\: first
\* is the server and the text after it, rest the text after \\?\
VerbatimUncPrefix(first, os) ==
    [kind |-> "VerbatimUNC",
     len |-> UncShare(8, first[1], parse_next_component(first[2], TRUE, os)[1])]
UncPrefix(first, share) ==
    IF Len(first[1]) > 0 /\ Len(share) > 0
    THEN [kind |-> "UNC", len |-> UncShare(2, first[1], share)]
    ELSE NoPrefix
VerbatimPrefix(rest, os) ==
    IF parse_drive_exact(rest)
    THEN [kind |-> "VerbatimDisk", len |-> 6]
    ELSE [kind |-> "Verbatim", len |-> 4 + Len(parse_next_component(rest, TRUE, os)[1])]
UncPrefixOf(first, os) ==
    UncPrefix(first, parse_next_component(first[2], FALSE, os)[1])

\* parse_prefix of the Windows path module, with Prefix::len: the kind of
\* the prefix of path and its length in characters.  Other hosts have no
\* prefixes.
parse_prefix(path, os) ==
    IF os # "windows" THEN NoPrefix
    ELSE IF MatchesAt(path, 1, <<"\\","\\">>)
    THEN IF /\ MatchesAt(path, 3, <<"?","\\">>)
            /\ \A i \in 1..4 : path[i] # "/"
         THEN IF MatchesAt(path, 5, <<"U","N","C","\\">>)
              THEN VerbatimUncPrefix(
                       parse_next_component(SubSeq(path, 9, Len(path)), TRUE, os), os)
              ELSE VerbatimPrefix(SubSeq(path, 5, Len(path)), os)
         ELSE IF MatchesAt(path, 3, <<".","\\">>)
         THEN [kind |-> "DeviceNS",
               len |-> 4 + Len(parse_next_component(SubSeq(path, 5, Len(path)), FALSE, os)[1])]
         ELSE UncPrefixOf(parse_next_component(SubSeq(path, 3, Len(path)), FALSE, os), os)
    ELSE IF parse_drive(path) THEN [kind |-> "Disk", len |-> 2]
    ELSE NoPrefix

\* Components::prefix_len
prefix_len(p, os) == parse_prefix(p, os).len

\* Prefix::is_verbatim, Prefix::is_drive, Prefix::has_implicit_root
is_verbatim(prefix) == prefix.kind \in {"Verbatim", "VerbatimUNC", "VerbatimDisk"}
is_drive(prefix) == prefix.kind = "Disk"
has_implicit_root(prefix) == prefix.kind \notin {"None", "Disk"}

\* has_physical_root(s, prefix): a separator follows the prefix
has_physical_root(s, prefix, os) ==
    Len(s) > prefix.len /\ is_sep_byte(s[prefix.len + 1], os)

\* Components::has_root: a physical root, or a prefix that implies one
Components_has_root(p, prefix, os) ==
    has_physical_root(p, prefix, os) \/ has_implicit_root(prefix)

\* Path::has_root
has_root(p, os) == Components_has_root(p, parse_prefix(p, os), os)

\* Path::is_absolute of a path whose prefix is given: a root, and on
\* Windows a prefix as well
Path_is_absolute(p, prefix, os) ==
    /\ Components_has_root(p, prefix, os)
    /\ os = "windows" => prefix.kind # "None"

\* Path::is_absolute
is_absolute(p, os) == Path_is_absolute(p, parse_prefix(p, os), os)

\* Components::include_cur_dir: a rootless path that starts with "."
include_cur_dir(p, prefix, os) ==
    /\ ~Components_has_root(p, prefix, os)
    /\ Len(p) > prefix.len
    /\ p[prefix.len + 1] = "."
    /\ (Len(p) > prefix.len + 1 => is_sep_byte(p[prefix.len + 2], os))

\* Components::parse_single_component: empty text is no component, "." is
\* one in a verbatim path only.  end is the index of the text's last
\* character in the path.
parse_single_component(comp, verbatim, end) ==
    IF comp = <<>> THEN None
    ELSE IF comp = <<".">>
    THEN (IF verbatim THEN Some([t |-> "CurDir", s |-> comp, end |-> end]) ELSE None)
    ELSE IF comp = <<".",".">> THEN Some([t |-> "ParentDir", s |-> comp, end |-> end])
    ELSE Some([t |-> "Normal", s |-> comp, end |-> end])

\* Components::next over the body: the components of p from index i on,
\* the next one ending before the separator at index j
RECURSIVE BodyComponents(_, _, _, _, _)
BodyComponents(p, i, j, verbatim, os) ==
    IF i > Len(p) THEN <<>>
    ELSE parse_single_component(SubSeq(p, i, j - 1), verbatim, j - 1)
             \o BodyComponents(p, j + 1, NextSep(p, j + 1, verbatim, os), verbatim, os)

\* Components::next at the start of a path whose prefix is given: the
\* prefix, then the root or the leading "."
StartComponents(p, prefix, root, cur_dir, os) ==
    (IF prefix.len > 0
     THEN <<[t |-> "Prefix", s |-> SubSeq(p, 1, prefix.len), end |-> prefix.len]>>
     ELSE <<>>)
    \o (IF root
        THEN <<[t |-> "RootDir", s |-> <<MAIN_SEPARATOR(os)>>, end |-> prefix.len + 1]>>
        ELSE IF prefix.kind # "None"
        THEN (IF has_implicit_root(prefix) /\ ~is_verbatim(prefix)
              THEN <<[t |-> "RootDir", s |-> <<MAIN_SEPARATOR(os)>>, end |-> prefix.len]>>
              ELSE <<>>)
        ELSE IF cur_dir
        THEN <<[t |-> "CurDir", s |-> <<".">>, end |-> 1]>>
        ELSE <<>>)

\* The components of a path whose prefix is given, the body starting at
\* index from
ComponentsFrom(p, prefix, root, cur_dir, from, os) ==
    StartComponents(p, prefix, root, cur_dir, os)
        \o BodyComponents(p, from, NextSep(p, from, is_verbatim(prefix), os),
                          is_verbatim(prefix), os)
Components_of(p, prefix, root, cur_dir, os) ==
    ComponentsFrom(p, prefix, root, cur_dir,
                   prefix.len + (IF root \/ (prefix.kind = "None" /\ cur_dir) THEN 2 ELSE 1),
                   os)
Components(p, prefix, os) ==
    Components_of(p, prefix, has_physical_root(p, prefix, os),
                  include_cur_dir(p, prefix, os), os)

\* Path::components
components(p, os) == Components(p, parse_prefix(p, os), os)

\* The verbatim branch of PathBuf::push: the components of comp are laid
\* over those of the path, ".." removing a normal component and "." being
\* dropped.
PushComponent(buf, c) ==
    CASE c.t = "RootDir" -> <<Head(buf), c>>
      [] c.t = "CurDir" -> buf
      [] c.t = "ParentDir" ->
             (IF buf[Len(buf)].t = "Normal" THEN SubSeq(buf, 1, Len(buf) - 1) ELSE buf)
      [] OTHER -> Append(buf, c)
RECURSIVE PushComponents(_, _)
PushComponents(buf, cs) ==
    IF cs = <<>> THEN buf
    ELSE PushComponents(PushComponent(buf, Head(cs)), Tail(cs))

\* The path written from components, a separator before every component
\* that follows a normal one or a prefix other than a drive
RECURSIVE JoinComponents(_, _, _)
JoinComponents(buf, need_sep, os) ==
    IF buf = <<>> THEN <<>>
    ELSE (IF need_sep /\ Head(buf).t # "RootDir" THEN <<MAIN_SEPARATOR(os)>> ELSE <<>>)
             \o Head(buf).s
             \o JoinComponents(Tail(buf),
                               CASE Head(buf).t = "RootDir" -> FALSE
                                 [] Head(buf).t = "Prefix" ->
                                        ~is_drive(parse_prefix(Head(buf).s, os))
                                 [] OTHER -> TRUE,
                               os)

\* PathBuf::push on a path and a component whose prefixes are given.  A
\* component that is absolute or has a prefix replaces the path; on a
\* verbatim path the components are joined; a component that has a root
\* only keeps the path's prefix; any other is appended, after a separator
\* unless the path is empty, ends in one, or is a bare drive prefix.
PathBuf_push(p, prefix, comp, comp_prefix, os) ==
    IF Path_is_absolute(comp, comp_prefix, os) \/ comp_prefix.kind # "None"
    THEN comp
    ELSE IF is_verbatim(prefix) /\ comp # <<>>
    THEN JoinComponents(PushComponents(Components(p, prefix, os),
                                       Components(comp, comp_prefix, os)),
                        FALSE, os)
    ELSE IF Components_has_root(comp, comp_prefix, os)
    THEN SubSeq(p, 1, prefix.len) \o comp
    ELSE IF /\ Len(p) > 0
            /\ ~is_sep_byte(p[Len(p)], os)
            /\ ~(prefix.len > 0 /\ prefix.len = Len(p) /\ is_drive(prefix))
    THEN p \o <<MAIN_SEPARATOR(os)>> \o comp
    ELSE p \o comp

\* PathBuf::push
push(p, comp, os) ==
    PathBuf_push(p, parse_prefix(p, os), comp, parse_prefix(comp, os), os)

\* The last of the components cs when it is a normal one
LastNormal(cs) ==
    IF cs # <<>> /\ cs[Len(cs)].t = "Normal" THEN Some(cs[Len(cs)]) ELSE None

\* Path::file_name: the last component when it is a normal one
FileNameOf(last) == IF last = None THEN None ELSE Some(last[1].s)
file_name(p, os) == FileNameOf(LastNormal(components(p, os)))

\* The length of the file stem of a file name whose last period is at
\* index dot: the name up to that period, the whole name when it has none
\* or only a leading one
StemLen(name, dot) == IF dot <= 1 THEN Len(name) ELSE dot - 1

\* PathBuf::set_extension: nothing without a file name; the path is
\* truncated after the file stem and "." + ext is appended.
SetExtension(p, last, ext) ==
    IF last = None THEN p
    ELSE SubSeq(p, 1, last[1].end - Len(last[1].s)
                          + StemLen(last[1].s, LastIndexOf(last[1].s, ".")))
             \o (IF ext = <<>> THEN <<>> ELSE <<".">> \o ext)
set_extension(p, ext, os) == SetExtension(p, LastNormal(components(p, os)), ext)

\* ------------------------------------------------------------ process
\* An ExitStatus is its exit code; ExitStatus::success
ExitCodes == 0..MaxExitCode
success(status) == status = 0

\* Result::ok: Ok(v) becomes Some(v), Err(_) becomes None
result_ok(r) == IF r.tag = "Ok" THEN Some(r.val) ELSE None

\* stage_failed with the test on the exit status inverted.
stage_failed_inverted(r) == LET o == result_ok(r) IN is_some(o) /\ success(o[1])

\* The test every stage makes on the result of Command::status:
\*   if let Some(status) = { ... .status() }.ok() { if !status.success() { return Err(..) } }
stage_failed(r) == LET o == result_ok(r) IN is_some(o) /\ ~success(o[1])

\* Command with only the standard output redirected.
Command_stdout_only(program, args, capture) ==
    [program |-> program, args |-> args,
     stdout |-> IF capture THEN "null" ELSE "inherit",
     stderr |-> "inherit"]

\* Stdio configuration of a command: both streams are sent to the null sink
\* when capture_output is set and are inherited otherwise.
Command(program, args, capture) ==
    [program |-> program, args |-> args,
     stdout |-> IF capture THEN "null" ELSE "inherit",
     stderr |-> IF capture THEN "null" ELSE "inherit"]

Stages == <<"Build", "Compile", "Link", "Sign">>
StageSet == {"Build", "Compile", "Link", "Sign"}
NotRun == [tag |-> "NotRun"]

\* ------------------------------------------------------------ manifest
\* The named lookups of Wix::run on the parsed manifest.
pkg_version_of(cargo_values) ==
    ok_or(and_then(and_then(and_then(value_get(cargo_values, "package"),
                                     as_table),
                            LAMBDA t : table_get(t, "version")),
                   as_str),
          Manifest("version"))

\* pkg_name_of reporting the field of the lookup it was copied from.
pkg_name_of_wrong_field(cargo_values) ==
    ok_or(and_then(and_then(and_then(value_get(cargo_values, "package"),
                                     as_table),
                            LAMBDA t : table_get(t, "name")),
                   as_str),
          Manifest("version"))

pkg_name_of(cargo_values) ==
    ok_or(and_then(and_then(and_then(value_get(cargo_values, "package"),
                                     as_table),
                            LAMBDA t : table_get(t, "name")),
                   as_str),
          Manifest("name"))

\* pkg_description_of falling back to an empty description.
pkg_description_of_default(cargo_values) ==
    Ok(unwrap_or(and_then(and_then(and_then(value_get(cargo_values, "package"),
                                            as_table),
                                   LAMBDA t : table_get(t, "description")),
                          as_str),
                 <<>>))

pkg_description_of(cargo_values) ==
    ok_or(and_then(and_then(and_then(value_get(cargo_values, "package"),
                                     as_table),
                            LAMBDA t : table_get(t, "description")),
                   as_str),
          Manifest("description"))

pkg_author_of(cargo_values) ==
    ok_or(and_then(and_then(and_then(and_then(and_then(
                       value_get(cargo_values, "package"),
                       as_table),
                       LAMBDA t : table_get(t, "authors")),
                       as_array),
                       LAMBDA a : array_get(a, 0)),
                   as_str),
          Manifest("authors"))

\* bin_name_of looking the name up in the "package" table.
bin_name_of_package(cargo_values, pkg_name) ==
    unwrap_or(and_then(and_then(and_then(value_get(cargo_values, "package"),
                                         as_table),
                                LAMBDA t : table_get(t, "name")),
                       as_str),
              pkg_name)

bin_name_of(cargo_values, pkg_name) ==
    unwrap_or(and_then(and_then(and_then(value_get(cargo_values, "bin"),
                                         as_table),
                                LAMBDA t : table_get(t, "name")),
                       as_str),
              pkg_name)

\* The three path artifacts.
main_wxs_of(os) ==
    set_extension(push(<<"w","i","x">>, <<"m","a","i","n">>, os),
                  <<"w","x","s">>, os)

main_wixobj_of(os) ==
    set_extension(push(push(push(<<"t","a","r","g","e","t">>,
                                 <<"w","i","x">>, os),
                            <<"b","u","i","l","d">>, os),
                       <<"m","a","i","n">>, os),
                  <<"w","i","x","o","b","j">>, os)

\* format!("{}-{}-{}.msi", pkg_name, pkg_version, platform.arch())
msi_file_name(pkg_name, pkg_version, platform) ==
    pkg_name \o <<"-">> \o pkg_version \o <<"-">> \o arch(platform)
             \o <<".","m","s","i">>

main_msi_of(pkg_name, pkg_version, platform, os) ==
    push(push(<<"t","a","r","g","e","t">>, <<"w","i","x">>, os),
         msi_file_name(pkg_name, pkg_version, platform), os)

\* File::open, read_to_string and str::parse::<Value> on Cargo.toml.  The
\* file is [open, read, parsed]: whether it can be opened, whether it can
\* be read, and the toml::Value its content parses to (None: no valid TOML).
\* read_to_string with its io::Result ignored.
read_to_string_unchecked(file) == Ok(file.parsed)

open_file(file) == IF file.open THEN Ok(file) ELSE Err(Io("open"))
read_to_string(file) == IF file.read THEN Ok(file.parsed) ELSE Err(Io("read"))
parse_value(content) == ok_or(content, Toml("parse"))

\* Lines 191-256 of Wix::run: every `?` returns the error at once.
read_manifest(file, target_arch, os) ==
    LET f == open_file(file) IN
    IF f.tag = "Err" THEN f ELSE
    LET content == read_to_string(f.val) IN
    IF content.tag = "Err" THEN content ELSE
    LET cargo_values == parse_value(content.val) IN
    IF cargo_values.tag = "Err" THEN cargo_values ELSE
    LET pkg_version == pkg_version_of(cargo_values.val) IN
    IF pkg_version.tag = "Err" THEN pkg_version ELSE
    LET pkg_name == pkg_name_of(cargo_values.val) IN
    IF pkg_name.tag = "Err" THEN pkg_name ELSE
    LET pkg_description == pkg_description_of(cargo_values.val) IN
    IF pkg_description.tag = "Err" THEN pkg_description ELSE
    LET pkg_author == pkg_author_of(cargo_values.val) IN
    IF pkg_author.tag = "Err" THEN pkg_author ELSE
    LET platform == PlatformOf(target_arch) IN
    Ok([pkg_version |-> pkg_version.val,
        pkg_name |-> pkg_name.val,
        pkg_description |-> pkg_description.val,
        pkg_author |-> pkg_author.val,
        bin_name |-> bin_name_of(cargo_values.val, pkg_name.val),
        platform |-> platform,
        main_wxs |-> main_wxs_of(os),
        main_wixobj |-> main_wixobj_of(os),
        main_msi |-> main_msi_of(pkg_name.val, pkg_version.val, platform, os)])

\* ------------------------------------------------------------ inputs
\* The manifests the runs are checked on: every combination of a missing,
\* wrong-typed or usable value for each key the code looks up.
Absent == [kind |-> "Absent"]
STR_demo == <<"d","e","m","o">>
STR_slash_abs == <<"/","a","b","s">>
STR_backslash_abs == <<"\\","a","b","s">>
STR_drive_abs == <<"C",":","a","b","s">>
STR_sub_abs == <<"s","u","b","/","a","b","s">>
STR_unc == <<"\\","\\","s","r","v","\\","s","h">>
STR_unc_file == <<"\\","\\","s","r","v","\\","s","h","\\","x">>
STR_unc_slashes == <<"/","/","s","r","v","/","s","h","/","x">>
STR_verbatim == <<"\\","\\","?","\\","C",":">>
STR_verbatim_disk == <<"\\","\\","?","\\","C",":","\\","x">>
STR_verbatim_unc == <<"\\","\\","?","\\","U","N","C","\\","s","r","v","\\","s","h","\\","x">>
STR_device == <<"\\","\\",".","\\","C","O","M","1">>
STR_tool == <<"t","o","o","l">>
STR_me == <<"m","e">>
STR_desc == <<"A"," ","d","e","m","o">>
STR_2_1_0 == <<"2",".","1",".","0">>
STR_1_0 == <<"1",".","0">>

\* A table holding the keys of choice whose value is not Absent.
MkTable(choice) ==
    LET keys == {k \in DOMAIN choice : choice[k].kind # "Absent"}
    IN [k \in keys |-> choice[k]]

VersionChoices == {Absent, IntV, StrV(STR_2_1_0), StrV(STR_1_0)}
NameChoices == {Absent, IntV, StrV(STR_demo)}
DescriptionChoices == {Absent, IntV, StrV(STR_desc)}
AuthorArrays == UNION {[1..n -> {IntV, StrV(STR_me)}] : n \in 0..MaxAuthors}
AuthorsChoices == {Absent, StrV(STR_me)} \cup {ArrV(a) : a \in AuthorArrays}
PackageChoices ==
    {Absent, IntV} \cup
    {TabV(MkTable([version |-> v, name |-> n, description |-> d, authors |-> a])) :
        v \in VersionChoices, n \in NameChoices,
        d \in DescriptionChoices, a \in AuthorsChoices}
BinChoices ==
    {Absent, IntV,
     TabV(MkTable([name |-> Absent])),
     TabV(MkTable([name |-> IntV])),
     TabV(MkTable([name |-> StrV(STR_tool)])),
     ArrV(<<TabV(MkTable([name |-> StrV(STR_tool)]))>>)}
\* Package names are read from Cargo.toml as they are: names that begin
\* with a separator, carry a drive, UNC, verbatim or device prefix, or
\* contain a separator.
PathLikeNames ==
    {STR_slash_abs, STR_backslash_abs, STR_drive_abs, STR_sub_abs,
     STR_unc, STR_unc_file, STR_unc_slashes,
     STR_verbatim, STR_verbatim_disk, STR_verbatim_unc, STR_device}
PathLikePackages ==
    {TabV(MkTable([version |-> StrV(v), name |-> StrV(n),
                   description |-> StrV(STR_desc),
                   authors |-> ArrV(<<StrV(STR_me)>>)])) :
        v \in {STR_2_1_0}, n \in PathLikeNames}
Documents ==
    {TabV(MkTable([package |-> p, bin |-> b])) : p \in PackageChoices, b \in BinChoices}
    \cup {TabV(MkTable([package |-> p, bin |-> Absent])) : p \in PathLikePackages}

GoodDocument ==
    TabV(MkTable([package |-> TabV(MkTable([version |-> StrV(STR_2_1_0),
                                            name |-> StrV(STR_demo),
                                            description |-> StrV(STR_desc),
                                            authors |-> ArrV(<<StrV(STR_me)>>)])),
                  bin |-> Absent]))
EmptyDocument == TabV(MkTable([package |-> Absent, bin |-> Absent]))

\* Cargo.toml as the run finds it.  A file that cannot be opened or read
\* is paired with a few contents only: its content is never looked at.
CargoFiles ==
    {[open |-> TRUE, read |-> TRUE, parsed |-> Some(d)] : d \in Documents}
    \cup {[open |-> o, read |-> r, parsed |-> c] :
            o \in BOOLEAN, r \in BOOLEAN,
            c \in {None, Some(EmptyDocument), Some(GoodDocument)}}

TargetArchs == {"x86_64", "x86"}
TargetOss == {"windows", "unix"}

\* ------------------------------------------------------------ state
VARIABLES
    self,         \* the Wix value: [sign, capture_output]
    cargo_file,   \* Cargo.toml in the working directory
    host,         \* [target_arch, target_os] of the build
    pc,           \* where Wix::run is
    locals,       \* the let-bindings of Wix::run once the manifest is read
    log,          \* the info! messages emitted, in order
    invoked,      \* the commands on which status() was called, in order
    running,      \* the stages whose child process is alive
    status,       \* per stage, the result of status(), or NotRun
    result        \* None until run returns, then Some(its Result)

vars == <<self, cargo_file, host, pc, locals, log, invoked, running, status, result>>

NoLocals == [k \in {} |-> 0]

\* Wix::new, before any builder call and before run
Init ==
    /\ self = [sign |-> FALSE, capture_output |-> TRUE]
    /\ cargo_file \in CargoFiles
    /\ host \in [target_arch : TargetArchs, target_os : TargetOss]
    /\ pc = "new"
    /\ locals = NoLocals
    /\ log = <<>>
    /\ invoked = <<>>
    /\ running = {}
    /\ status = [s \in StageSet |-> NotRun]
    /\ result = None

\* Wix::capture_output(c)
Wix_capture_output(c) ==
    /\ pc = "new"
    /\ self' = [self EXCEPT !.capture_output = c]
    /\ UNCHANGED <<cargo_file, host, pc, locals, log, invoked, running, status, result>>

\* Wix::sign(s)
Wix_sign(s) ==
    /\ pc = "new"
    /\ self' = [self EXCEPT !.sign = s]
    /\ UNCHANGED <<cargo_file, host, pc, locals, log, invoked, running, status, result>>

\* return r;
Return(r) ==
    /\ result' = Some(r)
    /\ pc' = "done"

\* Wix::run up to the first stage: read the manifest and compute the paths.
run_manifest ==
    /\ pc = "new"
    /\ LET r == read_manifest(cargo_file, host.target_arch, host.target_os) IN
       IF r.tag = "Err"
       THEN /\ Return(r)
            /\ UNCHANGED locals
       ELSE /\ locals' = r.val
            /\ pc' = "build"
            /\ UNCHANGED result
    /\ UNCHANGED <<self, cargo_file, host, log, invoked, running, status>>

\* info!(msg) at the start of a stage, before its Command is built.
InfoStage(msg, spawn_pc) ==
    /\ log' = Append(log, msg)
    /\ pc' = spawn_pc
    /\ UNCHANGED <<self, cargo_file, host, locals, invoked, running, status, result>>

\* SpawnStage with the Err of status() returned to the caller.
SpawnStage_propagate(stage, command, wait_pc, skip_pc) ==
    /\ invoked' = Append(invoked, [stage |-> stage, command |-> command])
    /\ \/ /\ running' = running \cup {stage}
          /\ pc' = wait_pc
          /\ UNCHANGED <<status, result>>
       \/ /\ status' = [status EXCEPT ![stage] = Err(Io("spawn"))]
          /\ UNCHANGED running
          /\ Return(Err(Io("spawn")))
    /\ UNCHANGED <<self, cargo_file, host, locals, log>>

\* Command::status() up to the spawn of the child.  When the spawn fails
\* status() returns Err, .ok() is None and the stage's if-let body is
\* skipped: run goes on with what follows the stage.
SpawnStage(stage, command, wait_pc, skip_pc) ==
    /\ invoked' = Append(invoked, [stage |-> stage, command |-> command])
    /\ \/ /\ running' = running \cup {stage}
          /\ pc' = wait_pc
          /\ UNCHANGED <<status, result>>
       \/ /\ status' = [status EXCEPT ![stage] = Err(Io("spawn"))]
          /\ UNCHANGED running
          /\ IF skip_pc = "return" THEN Return(Ok(<<>>))
             ELSE pc' = skip_pc /\ UNCHANGED result
    /\ UNCHANGED <<self, cargo_file, host, locals, log>>

\* Command::status() from the wait on the child to the end of the stage:
\* the child exits with some code, or the wait itself fails.
WaitStage(stage, error, next_pc) ==
    /\ running' = running \ {stage}
    /\ \E r \in {Ok(c) : c \in ExitCodes} \cup {Err(Io("wait"))} :
         /\ status' = [status EXCEPT ![stage] = r]
         /\ IF stage_failed(r) THEN Return(Err(error))
            ELSE IF next_pc = "return" THEN Return(Ok(<<>>))
            ELSE pc' = next_pc /\ UNCHANGED result
    /\ UNCHANGED <<self, cargo_file, host, locals, log, invoked>>

\* after_link with the test on self.sign left out.
after_link_always_sign == "sign"

\* What follows the link stage: `if self.sign { ... }` then `Ok(())`.
after_link == IF self.sign THEN "sign" ELSE "return"

build_command ==
    Command(CARGO, <<ARG_build, ARG_release>>, self.capture_output)

compile_command ==
    Command(WIX_TOOLSET_COMPILER,
            <<D_Version \o locals.pkg_version,
              D_Platform \o PlatformDisplay(locals.platform),
              D_ProductName \o locals.pkg_name,
              D_BinaryName \o locals.bin_name,
              D_Description \o locals.pkg_description,
              D_Author \o locals.pkg_author,
              ARG_o,
              locals.main_wixobj,
              locals.main_wxs>>,
            self.capture_output)

\* link_command given the installer source instead of the compiled object.
link_command_reads_wxs ==
    Command(WIX_TOOLSET_LINKER,
            <<ARG_ext, ARG_WixUIExtension, ARG_cultures,
              locals.main_wxs, ARG_out, locals.main_msi>>,
            self.capture_output)

link_command ==
    Command(WIX_TOOLSET_LINKER,
            <<ARG_ext, ARG_WixUIExtension, ARG_cultures,
              locals.main_wixobj, ARG_out, locals.main_msi>>,
            self.capture_output)

sign_command ==
    Command(SIGNTOOL, <<ARG_sign, ARG_a, locals.main_msi>>, self.capture_output)

run_build_info ==
    /\ pc = "build"
    /\ InfoStage("Building release binary", "build_spawn")

\* run_build_spawn with the child started and not waited for.
run_build_spawn_nowait ==
    /\ pc = "build_spawn"
    /\ SpawnStage("Build", build_command, "compile", "compile")

run_build_spawn ==
    /\ pc = "build_spawn"
    /\ SpawnStage("Build", build_command, "build_wait", "compile")

run_build_wait ==
    /\ pc = "build_wait"
    /\ WaitStage("Build", Build("Failed to build the release executable"), "compile")

run_compile_info ==
    /\ pc = "compile"
    /\ InfoStage("Compiling installer", "compile_spawn")

run_compile_spawn ==
    /\ pc = "compile_spawn"
    /\ SpawnStage("Compile", compile_command, "compile_wait", "link")

run_compile_wait ==
    /\ pc = "compile_wait"
    /\ WaitStage("Compile", Compile("Failed to compile the installer"), "link")

run_link_info ==
    /\ pc = "link"
    /\ InfoStage("Linking the installer", "link_spawn")

run_link_spawn ==
    /\ pc = "link_spawn"
    /\ SpawnStage("Link", link_command, "link_wait", after_link)

run_link_wait ==
    /\ pc = "link_wait"
    /\ WaitStage("Link", Link("Failed to link the installer"), after_link)

run_sign_info ==
    /\ pc = "sign"
    /\ InfoStage("Signing the installer", "sign_spawn")

run_sign_spawn ==
    /\ pc = "sign_spawn"
    /\ SpawnStage("Sign", sign_command, "sign_wait", "return")

\* run_sign_wait signing again after a failed signing.
run_sign_wait_retry ==
    /\ pc = "sign_wait"
    /\ running' = running \ {"Sign"}
    /\ \E r \in {Ok(c) : c \in ExitCodes} \cup {Err(Io("wait"))} :
         /\ status' = [status EXCEPT !["Sign"] = r]
         /\ IF stage_failed(r) /\ Len(invoked) < 5
            THEN pc' = "sign_spawn" /\ UNCHANGED result
            ELSE IF stage_failed(r)
            THEN Return(Err(Sign("Failed to sign the installer")))
            ELSE Return(Ok(<<>>))
    /\ UNCHANGED <<self, cargo_file, host, locals, log, invoked>>

run_sign_wait ==
    /\ pc = "sign_wait"
    /\ WaitStage("Sign", Sign("Failed to sign the installer"), "return")

Next ==
    \/ \E c \in BOOLEAN : Wix_capture_output(c)
    \/ \E s \in BOOLEAN : Wix_sign(s)
    \/ run_manifest
    \/ run_build_info
    \/ run_build_spawn
    \/ run_build_wait
    \/ run_compile_info
    \/ run_compile_spawn
    \/ run_compile_wait
    \/ run_link_info
    \/ run_link_spawn
    \/ run_link_wait
    \/ run_sign_info
    \/ run_sign_spawn
    \/ run_sign_wait

Spec == Init /\ [][Next]_vars

\* The steps of a run once it has read the manifest.  run is straight-line
\* code, so a step that can be taken is taken; for the wait steps this is
\* the assumption that every spawned process eventually exits.
RunStep ==
    \/ run_build_info
    \/ run_build_spawn
    \/ run_build_wait
    \/ run_compile_info
    \/ run_compile_spawn
    \/ run_compile_wait
    \/ run_link_info
    \/ run_link_spawn
    \/ run_link_wait
    \/ run_sign_info
    \/ run_sign_spawn
    \/ run_sign_wait

FairSpec == Spec /\ WF_vars(RunStep)

\* ============================================================ properties
\* What the properties read off a state.
InvokedStages == {invoked[i].stage : i \in DOMAIN invoked}
ExitedOk(s) == status[s].tag = "Ok" /\ status[s].val = 0
ExitedNonZero(s) == status[s].tag = "Ok" /\ status[s].val # 0
StatusErr(s) == status[s].tag = "Err"
Returned == pc = "done" /\ Len(result) = 1
ReturnedOk == Returned /\ result[1].tag = "Ok"
ReturnedErr == Returned /\ result[1].tag = "Err"
ReturnedKind(k) == ReturnedErr /\ result[1].err.kind = k
NeverReached(s) == s \notin InvokedStages /\ status[s] = NotRun /\ s \notin running
ManifestRead == pc \notin {"new"} /\ locals # NoLocals

\* C1: a stage whose process exits non-zero, all earlier stages' processes
\* having exited with success, makes run return that stage's error kind,
\* and no later stage is invoked.
C1_FailedStageStopsPipeline ==
    \A i \in 1..4 :
        (/\ ExitedNonZero(Stages[i])
         /\ \A j \in 1..(i - 1) : ExitedOk(Stages[j]))
        => /\ ReturnedKind(Stages[i])
           /\ \A k \in (i + 1)..4 : NeverReached(Stages[k])

\* C1 witness: build and compile exited 0, link exited non-zero, signing
\* was requested.
C1_Witness ==
    /\ self.sign
    /\ ExitedOk("Build") /\ ExitedOk("Compile") /\ ExitedNonZero("Link")
    /\ pc = "done"

\* C2 as claimed: once the manifest is read, run returns Ok only if every
\* stage it executed had its process exit successfully, and otherwise it
\* returns the error of the first stage that did not, later stages never
\* having run.
C2_OkOnlyIfEveryStageExitedOk ==
    (Returned /\ ManifestRead) =>
        IF \A s \in InvokedStages : ExitedOk(s)
        THEN ReturnedOk
        ELSE \E i \in 1..4 :
                /\ Stages[i] \in InvokedStages
                /\ ~ExitedOk(Stages[i])
                /\ \A j \in 1..(i - 1) : ExitedOk(Stages[j])
                /\ ReturnedKind(Stages[i])
                /\ \A k \in (i + 1)..4 : NeverReached(Stages[k])

\* C3 as claimed: a stage whose process cannot be spawned or waited on
\* makes run return an error, and no later stage is invoked.
C3_SpawnFailurePropagated ==
    \A i \in 1..4 :
        StatusErr(Stages[i])
        => /\ ReturnedErr
           /\ \A k \in (i + 1)..4 : NeverReached(Stages[k])

\* C4 as claimed: with sign false the signing tool is never invoked, run
\* never returns Sign, and once the manifest is read run returns Ok exactly
\* when the build, compile and link processes all exited successfully.
C4_NoSignWhenDisabled ==
    (~self.sign /\ pc # "new") =>
        /\ NeverReached("Sign")
        /\ ~ReturnedKind("Sign")
        /\ (Returned /\ ManifestRead) =>
              (ReturnedOk <=> (ExitedOk("Build") /\ ExitedOk("Compile") /\ ExitedOk("Link")))

\* What the manifest holds, read off the document itself.
RequiredFields == {"version", "name", "description", "authors"}
Parseable == cargo_file.open /\ cargo_file.read /\ Len(cargo_file.parsed) = 1
Document == cargo_file.parsed[1]
HasPackageTable ==
    /\ "package" \in DOMAIN Document.table
    /\ Document.table["package"].kind = "Table"
Package == Document.table["package"].table
FieldUsable(f) ==
    /\ HasPackageTable
    /\ f \in DOMAIN Package
    /\ IF f = "authors"
       THEN /\ Package[f].kind = "Array"
            /\ Len(Package[f].array) >= 1
            /\ Package[f].array[1].kind = "String"
       ELSE Package[f].kind = "String"
UnusableFields == {f \in RequiredFields : ~FieldUsable(f)}
ManifestUsable == Parseable /\ UnusableFields = {}

\* C5: a parseable manifest with exactly one unusable required field makes
\* run fail with Manifest naming that field, whose code is 6.
C5_SingleMissingFieldNamed ==
    \A f \in RequiredFields :
        (pc # "new" /\ Parseable /\ HasPackageTable /\ UnusableFields = {f})
        => /\ Returned
           /\ result[1] = Err(Manifest(f))
           /\ code(result[1].err) = 6

\* C5 witness: run has returned on a manifest whose only flaw is an empty
\* authors list.
C5_Witness ==
    /\ pc = "done"
    /\ Parseable /\ HasPackageTable
    /\ UnusableFields = {"authors"}
    /\ "authors" \in DOMAIN Package
    /\ Package["authors"].kind = "Array"
    /\ Len(Package["authors"].array) = 0

\* C6: when the manifest cannot be opened, read or parsed, or lacks a
\* required field, run returns that error at once: no process is spawned
\* and no progress message is emitted.
C6_ManifestFailureSpawnsNothing ==
    (pc # "new" /\ ~ManifestUsable)
    => /\ ReturnedErr
       /\ result[1].err.kind \in {"Io", "Toml", "Manifest"}
       /\ invoked = <<>>
       /\ running = {}
       /\ log = <<>>
       /\ \A s \in StageSet : status[s] = NotRun

\* C6 witness: run has returned on a Cargo.toml that is not valid TOML.
C6_Witness ==
    /\ pc = "done"
    /\ cargo_file.open /\ cargo_file.read /\ Len(cargo_file.parsed) = 0

\* The binary name the manifest asks for.
HasBinName ==
    /\ "bin" \in DOMAIN Document.table
    /\ Document.table["bin"].kind = "Table"
    /\ "name" \in DOMAIN Document.table["bin"].table
    /\ Document.table["bin"].table["name"].kind = "String"
ExpectedBinName ==
    IF HasBinName THEN Document.table["bin"].table["name"].str
    ELSE Package["name"].str

\* C7: the compile stage is given -dBinaryName=<bin.name> when bin is a
\* table whose name is a string and -dBinaryName=<package name> otherwise,
\* and a manifest with usable required fields never fails in manifest
\* reading whatever its bin entry is.
C7_BinaryNameOverride ==
    (pc # "new" /\ ManifestUsable)
    => /\ ~(ReturnedKind("Manifest") \/ ReturnedKind("Io") \/ ReturnedKind("Toml"))
       /\ locals.bin_name = ExpectedBinName
       /\ \A i \in DOMAIN invoked :
              invoked[i].stage = "Compile"
              => invoked[i].command.args[4] = D_BinaryName \o ExpectedBinName

\* C7 witness: the compiler was invoked for a manifest whose bin.name
\* differs from the package name.
C7_Witness ==
    /\ ManifestUsable /\ HasBinName
    /\ ExpectedBinName # Package["name"].str
    /\ "Compile" \in InvokedStages

\* The installer path spelled out: target<sep>wix<sep>name-version-tag.msi
ExpectedArchTag ==
    IF host.target_arch = "x86_64" THEN <<"x","8","6","_","6","4">>
    ELSE <<"i","6","8","6">>
ExpectedSeparator == IF host.target_os = "windows" THEN "\\" ELSE "/"
ExpectedMsiName ==
    Package["name"].str \o <<"-">> \o Package["version"].str \o <<"-">>
        \o ExpectedArchTag \o <<".","m","s","i">>
ExpectedMsiPath ==
    <<"t","a","r","g","e","t">> \o <<ExpectedSeparator>> \o <<"w","i","x">>
        \o <<ExpectedSeparator>> \o ExpectedMsiName
CountOf(s, c) == Cardinality({i \in 1..Len(s) : s[i] = c})

\* C8: for every package name, version and platform the installer the
\* linker writes and the signer signs is target<sep>wix<sep> followed by
\* the file name name-version-archtag.msi with the version kept whole;
\* demo, 2.1.0 on X64 gives demo-2.1.0-x86_64.msi.  A package name that
\* begins with a separator, carries a drive prefix or contains a separator
\* is pushed as a path of its own (lib.rs 255): the installer then leaves
\* target<sep>wix or its file name is only the tail of the concatenation.
C8_InstallerFileName ==
    (pc # "new" /\ ManifestUsable)
    => /\ locals.main_msi = ExpectedMsiPath
       /\ file_name(locals.main_msi, host.target_os) = Some(ExpectedMsiName)
       /\ CountOf(ExpectedMsiName, ".") =
              CountOf(Package["name"].str, ".") + CountOf(Package["version"].str, ".") + 1
       /\ \A i \in DOMAIN invoked :
              /\ invoked[i].stage = "Link" => invoked[i].command.args[6] = ExpectedMsiPath
              /\ invoked[i].stage = "Sign" => invoked[i].command.args[3] = ExpectedMsiPath
       /\ (/\ Package["name"].str = <<"d","e","m","o">>
           /\ Package["version"].str = <<"2",".","1",".","0">>
           /\ host.target_arch = "x86_64")
          => file_name(locals.main_msi, host.target_os) =
                Some(<<"d","e","m","o","-","2",".","1",".","0","-",
                       "x","8","6","_","6","4",".","m","s","i">>)

\* One error of every kind, and the code the documentation gives each kind.
ErrorSamples ==
    {Build("m"), Compile("m"), Generic("m"), Io("m"),
     Link("m"), Manifest("version"), Sign("m"), Toml("m")}
DocumentedCode ==
    [Build |-> 1, Compile |-> 2, Generic |-> 3, Io |-> 4,
     Link |-> 5, Manifest |-> 6, Sign |-> 7, Toml |-> 8]

\* C9: Error::code gives every kind its documented positive number, no two
\* kinds share a number, and the error run returns has the non-zero code
\* of its kind; the code of a stage error names the stage whose process
\* exited non-zero.
C9_ErrorCodesDistinct ==
    /\ \A e \in ErrorSamples : code(e) = DocumentedCode[e.kind] /\ code(e) > 0
    /\ \A e1, e2 \in ErrorSamples : e1.kind # e2.kind => code(e1) # code(e2)
    /\ ReturnedErr =>
          /\ code(result[1].err) # 0
          /\ \A e \in ErrorSamples :
                code(e) = code(result[1].err) => e.kind = result[1].err.kind
          /\ \A s \in StageSet :
                code(result[1].err) = DocumentedCode[s] => ExitedNonZero(s)

\* C9 witness: run has returned the Link error.
C9_Witness == ReturnedKind("Link") /\ code(result[1].err) = 5

\* C10: the stages are invoked in the order Build, Compile, Link, Sign, each
\* at most once; at most one child process is alive, it belongs to the
\* stage invoked last, and every stage invoked before the last has its
\* status() result.
C10_OneProcessAtATimeInOrder ==
    /\ Len(invoked) <= 4
    /\ \A i \in DOMAIN invoked : invoked[i].stage = Stages[i]
    /\ Cardinality(running) <= 1
    /\ \A s \in running : Len(invoked) > 0 /\ invoked[Len(invoked)].stage = s
    /\ \A i \in 1..(Len(invoked) - 1) :
          /\ status[invoked[i].stage] # NotRun
          /\ invoked[i].stage \notin running

\* C10 witness: all four stages were invoked and the signing tool runs.
C10_Witness == Len(invoked) = 4 /\ running = {"Sign"}


\* Where run enters each stage, and which stage follows the i-th.
StageEntry == [Build |-> "build", Compile |-> "compile", Link |-> "link", Sign |-> "sign"]
HasFollower(i) == i < 3 \/ (i = 3 /\ self.sign)

\* C11: a stage whose status() returned Err is passed over: run returns no
\* error for it and goes on to the following stage, or returns Ok when no
\* stage follows; a stage error is returned only for a non-zero exit
\* status; run returns Ok when every stage it invoked failed to spawn.
C11_SpawnFailureSwallowed ==
    /\ \A i \in 1..4 :
          StatusErr(Stages[i]) =>
             /\ ~ReturnedKind(Stages[i])
             /\ ~ReturnedKind("Io")
             /\ IF HasFollower(i)
                THEN /\ pc = StageEntry[Stages[i + 1]] \/ Len(log) >= i + 1
                     /\ pc = "done" => Stages[i + 1] \in InvokedStages
                ELSE ReturnedOk
    /\ \A s \in StageSet : ReturnedKind(s) => ExitedNonZero(s)
    /\ (pc = "done" /\ ManifestRead /\ \A s \in InvokedStages : StatusErr(s))
          => ReturnedOk

\* C11 witness: all four stages failed to spawn and run returned Ok.
C11_Witness ==
    /\ \A s \in StageSet : status[s] = Err(Io("spawn"))
    /\ ReturnedOk


\* The paths a command is given: the argument after -o or -out is the path
\* it writes, any other path argument is a path it reads (or, for the
\* signing tool, targets).
PathArtifacts == {locals.main_wxs, locals.main_wixobj, locals.main_msi}
OutputFlags == {ARG_o, ARG_out}
OutputsOf(cmd) ==
    {cmd.args[i + 1] : i \in {j \in 1..(Len(cmd.args) - 1) : cmd.args[j] \in OutputFlags}}
InputsOf(cmd) ==
    {cmd.args[i] : i \in {j \in 1..Len(cmd.args) :
                            /\ cmd.args[j] \in PathArtifacts
                            /\ ~(j > 1 /\ cmd.args[j - 1] \in OutputFlags)}}
WritersOf(p) == {invoked[i].stage : i \in {j \in DOMAIN invoked : p \in OutputsOf(invoked[j].command)}}
ReadersOf(p) == {invoked[i].stage : i \in {j \in DOMAIN invoked : p \in InputsOf(invoked[j].command)}}
ExpectedWixobjPath ==
    <<"t","a","r","g","e","t">> \o <<ExpectedSeparator>> \o <<"w","i","x">>
        \o <<ExpectedSeparator>> \o <<"b","u","i","l","d">>
        \o <<ExpectedSeparator>> \o <<"m","a","i","n",".","w","i","x","o","b","j">>
StageNumber == [Build |-> 1, Compile |-> 2, Link |-> 3, Sign |-> 4]

\* C12 as claimed: in a run that invoked all four stages the compile output
\* is the link input, the link output is the sign target, and each of the
\* three paths is written by exactly one stage and read by at most the
\* stage after its writer.
C12_EveryPathWrittenByOneStage ==
    Len(invoked) = 4 =>
        /\ OutputsOf(invoked[2].command) = InputsOf(invoked[3].command)
        /\ OutputsOf(invoked[3].command) = InputsOf(invoked[4].command)
        /\ \A p \in PathArtifacts :
              /\ Cardinality(WritersOf(p)) = 1
              /\ \A w \in WritersOf(p), r \in ReadersOf(p) :
                    StageNumber[r] = StageNumber[w] + 1

\* C12 amended: the compiled object target/wix/build/main.wixobj is the -o
\* argument of the compile stage only and the input of the link stage only;
\* the installer is the -out argument of the link stage only and the target
\* of the sign stage only; the source wix/main.wxs is written by no stage
\* and read by the compile stage only.
C12_PathsChainStages ==
    ManifestRead =>
        /\ Cardinality(PathArtifacts) = 3
        /\ locals.main_wixobj = ExpectedWixobjPath
        /\ WritersOf(locals.main_wixobj) = InvokedStages \cap {"Compile"}
        /\ ReadersOf(locals.main_wixobj) = InvokedStages \cap {"Link"}
        /\ WritersOf(locals.main_msi) = InvokedStages \cap {"Link"}
        /\ ReadersOf(locals.main_msi) = InvokedStages \cap {"Sign"}
        /\ WritersOf(locals.main_wxs) = {}
        /\ ReadersOf(locals.main_wxs) = InvokedStages \cap {"Compile"}
        /\ \A i \in DOMAIN invoked : OutputsOf(invoked[i].command) \subseteq PathArtifacts

\* C12 witness: compile, link and sign were all invoked.
C12_Witness ==
    /\ Len(invoked) = 4
    /\ WritersOf(locals.main_wixobj) = {"Compile"}
    /\ ReadersOf(locals.main_msi) = {"Sign"}


\* The progress message of each stage, and the stages a finished run
\* reached: a stage is reached when no stage before it exited non-zero,
\* and Sign also needs the sign option.
StageMessage ==
    [Build |-> "Building release binary", Compile |-> "Compiling installer",
     Link |-> "Linking the installer", Sign |-> "Signing the installer"]
Reached(i) ==
    /\ \A j \in 1..(i - 1) : ~ExitedNonZero(Stages[j])
    /\ i = 4 => self.sign

\* C13: the progress messages are those of Build, Compile, Link, Sign in
\* that order, each at most once; a stage's message is in the log before
\* its command is invoked; a finished run has logged exactly the stages it
\* reached, Sign only with the sign option.
C13_ProgressBeforeEachStage ==
    /\ Len(log) <= 4
    /\ \A i \in DOMAIN log : log[i] = StageMessage[Stages[i]]
    /\ \A i \in DOMAIN invoked : invoked[i].stage = Stages[i]
    /\ Len(invoked) <= Len(log)
    /\ Len(log) <= Len(invoked) + 1
    /\ (ManifestRead /\ pc # "build") => Len(log) >= 1
    /\ Len(log) = 4 => self.sign
    /\ (pc = "done" /\ ManifestRead) => \A i \in 1..4 : (i <= Len(log)) <=> Reached(i)

\* C13 witness: the signing message is logged and the signing tool is not
\* yet invoked.
C13_Witness == Len(log) = 4 /\ Len(invoked) = 3 /\ pc = "sign_spawn"


\* The stream setting the capture_output option asks for.
ExpectedStdio == IF self.capture_output THEN "null" ELSE "inherit"
StdioAsConfigured ==
    \A i \in DOMAIN invoked :
        /\ invoked[i].command.stdout = ExpectedStdio
        /\ invoked[i].command.stderr = ExpectedStdio

\* C14: Wix::new sets sign false and capture_output true; every command of
\* a run has both its streams on the null sink when capture_output is true
\* and inherited when it is false; neither option changes once run has
\* started.
C14_CaptureOutputAppliedToEveryStage ==
    /\ self = [sign |-> FALSE, capture_output |-> TRUE]
    /\ []StdioAsConfigured
    /\ [][pc # "new" => self' = self]_vars

\* C14 witness: all four commands were issued with capture_output false.
C14_Witness ==
    /\ ~self.capture_output
    /\ Len(invoked) = 4
    /\ \A i \in 1..4 : invoked[i].command.stdout = "inherit" /\ invoked[i].command.stderr = "inherit"


\* The required fields in the order run looks them up, and the first of
\* them the manifest lacks.
FieldOrder == <<"version", "name", "description", "authors">>
FirstUnusable ==
    FieldOrder[CHOOSE i \in 1..4 :
                  /\ ~FieldUsable(FieldOrder[i])
                  /\ \A j \in 1..(i - 1) : FieldUsable(FieldOrder[j])]

\* C15: manifest reading reports an I/O failure (code 4) before a parse
\* failure (code 8) before a missing field, and of several missing fields
\* the first of version, name, description, authors; a manifest without a
\* package table fails with Manifest("version").
C15_ManifestFailurePrecedence ==
    pc # "new" =>
        IF ~cargo_file.open \/ ~cargo_file.read
        THEN ReturnedKind("Io") /\ code(result[1].err) = 4
        ELSE IF Len(cargo_file.parsed) = 0
        THEN ReturnedKind("Toml") /\ code(result[1].err) = 8
        ELSE /\ UnusableFields # {} =>
                  /\ Returned
                  /\ result[1] = Err(Manifest(FirstUnusable))
             /\ ~HasPackageTable =>
                  /\ Returned
                  /\ result[1] = Err(Manifest("version"))

\* C15 witness: run has returned on a manifest that lacks both name and
\* authors.
C15_Witness ==
    /\ pc = "done"
    /\ Parseable /\ HasPackageTable
    /\ UnusableFields = {"name", "authors"}


\* What a run may never do: invoke more commands than it has stages, invoke
\* a stage twice, or have returned with a child still alive or with a
\* stage that exited non-zero followed by another command.
RunBounded ==
    /\ Len(invoked) <= (IF self.sign THEN 4 ELSE 3)
    /\ \A i, j \in DOMAIN invoked : i # j => invoked[i].stage # invoked[j].stage
    /\ pc = "done" => Len(result) = 1 /\ running = {}
    /\ \A i \in DOMAIN invoked :
          ExitedNonZero(invoked[i].stage) => i = Len(invoked) /\ pc = "done"

\* C16: every spawned process eventually exiting, a run that has started
\* eventually returns; it invokes at most four commands (three when sign
\* is false), never returns while a child is alive, and never invokes a
\* stage again after it failed.
C16_RunTerminates ==
    /\ []RunBounded
    /\ (pc # "new") ~> (pc = "done")

\* C16 witness: with sign false run returned Ok after three processes that
\* all exited.
C16_Witness ==
    /\ ~self.sign
    /\ ReturnedOk
    /\ Len(invoked) = 3
    /\ ExitedOk("Build") /\ ExitedOk("Compile") /\ ExitedOk("Link")
    /\ running = {}

====
